---- MODULE Spec2Model ----
(***************************************************************************)
(* Model of the "In One We Trust" frontend page (src/app/page.tsx) and of  *)
(* its three earlier drafts kept in the repository.  The page is a React   *)
(* component: its state is the useState slots, its operations are the      *)
(* event handlers (onChange, onSearch, getSignal, feelingLucky), the       *)
(* startup health effect, and the continuations that run when a fetch      *)
(* settles.  JavaScript is single threaded, so each handler runs to its    *)
(* first await atomically and each continuation runs atomically when the   *)
(* response arrives.  The server-side relay route handlers are modelled as *)
(* functions from the upstream response to their own.                      *)
(*                                                                         *)
(* Text the code computes on (queries, symbols) is a sequence of one       *)
(* character strings; messages that are only stored are TLA+ strings.      *)
(***************************************************************************)
EXTENDS Integers, Sequences, FiniteSets, TLC

VARIABLES
    variant,          \* which of the four page sources is running
    base,             \* process.env.NEXT_PUBLIC_API_BASE is set
    status,           \* useState: health status text, or Null
    error,            \* useState: the single error slot, or Null
    meta,             \* useState: {server_time, version}
    typed,            \* e.target.value of the last onChange event
    q,                \* useState: the text held in the input field
    result,           \* useState: SearchResult, or NullObj
    signal,           \* useState: Signal, or NullObj
    lucky,            \* useState: LuckyResponse, or NullObj
    loading,          \* useState: loading flag
    lastCall,         \* the handler invoked last
    inflight,         \* the user fetches awaiting their response
    sent,             \* number of user fetches dispatched so far
    hpc,              \* health check: "init", "inflight", "aborted", "done"
    timer,            \* health check's timeout: "none", "armed", "fired", "cleared"
    reruns,           \* health effect: times it was torn down and run again
    torn,             \* health requests of torn-down effect runs not yet settled
    lastSettle,       \* how the user fetch settled last ended: outcome, body parsed
    relay             \* a relay route handler: its upstream response and its own

vars == <<variant, base, status, error, meta, typed, q, result, signal, lucky,
          loading, lastCall, inflight, sent, hpc, timer, reruns, torn,
          lastSettle, relay>>

(***************************************************************************)
(* Bounds of the model.                                                    *)
(***************************************************************************)
\* user fetches dispatched in one run
MaxFetches == 3
\* user fetches dispatched in one run of direct handler calls
MaxApiFetches == 2
\* length of the text before and after the repeated body of a validator input
MaxAffix == 1
\* how far a validator input's body goes past the length limit
MaxOver == 1

\* how many times the health effect is torn down and run again
MaxReruns == 1

\* user fetches in the runs that tear the health effect down
MaxTeardownFetches == 2

\* length of the texts typed into the input field when only typing is checked
MaxTypedLen == 2

(***************************************************************************)
(* Values.                                                                 *)
(***************************************************************************)
Null == "null"
NullObj == [tag |-> "null"]

\* One character of each class the code distinguishes: lower case letter,
\* upper case letter, digit, the three permitted punctuation characters, a
\* forbidden character, and a white space character that is not the blank.
Alphabet == {"a", "A", "7", " ", ".", "-", "$", "\t"}

\* String.prototype.trim strips white space, the tab included.
IsWhiteSpace(c) == c \in {" ", "\t"}

\* The character class [A-Za-z0-9 .-] of the validation pattern.
AllowedChar(c) == c \in {"a", "A", "7", " ", ".", "-"}

Rep(c, n) == [i \in 1..n |-> c]

RECURSIVE TrimStart(_)
TrimStart(s) ==
    IF s # <<>> /\ IsWhiteSpace(Head(s)) THEN TrimStart(Tail(s)) ELSE s

RECURSIVE TrimEnd(_)
TrimEnd(s) ==
    IF s # <<>> /\ IsWhiteSpace(s[Len(s)])
    THEN TrimEnd(SubSeq(s, 1, Len(s) - 1))
    ELSE s

\* input.trim()
Trim(s) == TrimEnd(TrimStart(s))

SwapCaseChar(c) == IF c = "a" THEN "A" ELSE IF c = "A" THEN "a" ELSE c

UpperChar(c) == IF c = "a" THEN "A" ELSE c

\* e.target.value.toUpperCase()
ToUpperCase(s) == [i \in 1..Len(s) |-> UpperChar(s[i])]

\* the pattern without its anchors: one permitted character is enough
RegexTestUnanchored(s) == \E i \in 1..Len(s) : AllowedChar(s[i])

\* /^[A-Za-z0-9 .-]+$/.test(s)
RegexTest(s) == s # <<>> /\ \A i \in 1..Len(s) : AllowedChar(s[i])

EscapeChar(c) ==
    CASE c = " "  -> <<"%", "2", "0">>
      [] c = "$"  -> <<"%", "2", "4">>
      [] c = "\t" -> <<"%", "0", "9">>
      [] OTHER    -> <<c>>

RECURSIVE encodeURIComponent(_)
encodeURIComponent(s) ==
    IF s = <<>> THEN <<>>
    ELSE EscapeChar(Head(s)) \o encodeURIComponent(Tail(s))

\* the length limit of validateQuery
MaxQueryLen == 50

EmptyQuery == "Query cannot be empty."
QueryTooLong == "Query too long."
InvalidCharacters == "Query contains invalid characters."

\* the pattern tested before the length
validateQueryPatternFirst(input) ==
    LET trimmed == Trim(input) IN
    IF trimmed = <<>> THEN EmptyQuery
    ELSE IF ~RegexTest(trimmed) THEN InvalidCharacters
    ELSE IF Len(trimmed) > MaxQueryLen THEN QueryTooLong
    ELSE Null

validateQuery(input) ==
    LET trimmed == Trim(input) IN
    IF trimmed = <<>> THEN EmptyQuery
    ELSE IF Len(trimmed) > MaxQueryLen THEN QueryTooLong
    ELSE IF ~RegexTest(trimmed) THEN InvalidCharacters
    ELSE Null

(***************************************************************************)
(* The four page sources and where they differ.                            *)
(*   "page"      src/app/page.tsx                                          *)
(*   "route"     the page in src/src/app/api/health/route.ts (lines 10 on) *)
(*   "part_000"  src/unnamed/part_000, the first draft                     *)
(*   "part_001"  src/unnamed/part_001, the second draft                    *)
(***************************************************************************)
Variants == {"page", "route", "part_000", "part_001"}

\* performSearch, getSignal and feelingLucky return early when base is unset
HandlersCheckBase(v) == v = "page"

\* the health effect returns early when base is unset
HealthChecksBase(v) == v \in {"page", "part_001"}

\* the health effect arms a 10 s timer that aborts the request
HealthHasTimeout(v) == v \in {"page", "route"}

\* onSearch calls validateQuery first
ValidatesQuery(v) == v # "part_000"

\* the input's onChange stores the upper cased text
UppercasesInput(v) == v # "part_000"

\* onSearch sets loading around performSearch
SearchSetsLoading(v) == v \in {"page", "route"}

\* the submit button carries disabled={loading}
SubmitGated(v) == v # "part_000"

\* the page renders the result card, which holds the two buttons
RendersResultCard(v) == v # "part_001"

\* getSignal reads result.suggestions?.[0] rather than result.suggestions[0]
OptionalChaining(v) == v # "part_000"

\* catch stores String(e) rather than a fixed message
ShowsRawError(v) == v = "part_000"

(***************************************************************************)
(* What the user types and what the upstream service answers.              *)
(***************************************************************************)
AAPL == <<"A", "A">>
TSLA == <<"7", "A">>
TESLA == <<"A", "-", "A">>

\* texts typed in the state machine: one that needs trimming and upper
\* casing, a blank one, one with a forbidden character and one longer than
\* the limit
TypedInputs ==
    { <<" ", "a", "a", " ">>, <<" ">>, <<"a", "$">>, Rep("A", MaxQueryLen + 1) }

\* Parsed bodies of a 2xx /search response.  missing holds the names of the
\* fields the body lacks; the cast "as SearchResult" checks nothing.
SearchBodies ==
    { [tag |-> "result", type |-> "ticker", normalized |-> AAPL,
       suggestions |-> <<>>, missing |-> {}],
      [tag |-> "result", type |-> "company", normalized |-> TESLA,
       suggestions |-> <<TSLA, AAPL>>, missing |-> {}],
      [tag |-> "result", type |-> "company", normalized |-> TESLA,
       suggestions |-> <<>>, missing |-> {}],
      [tag |-> "result", type |-> "company", normalized |-> TESLA,
       suggestions |-> << <<>>, TSLA >>, missing |-> {}],
      [tag |-> "result", type |-> "company", normalized |-> TESLA,
       suggestions |-> <<>>, missing |-> {"suggestions"}],
      [tag |-> "result", type |-> "ticker", normalized |-> <<>>,
       suggestions |-> <<>>, missing |-> {}] }

\* Parsed bodies of a 2xx /health response: with and without a status field.
HealthBodies ==
    { [status |-> "ok", server_time |-> "2025-01-01T00:00:00Z", version |-> "1"],
      [status |-> Null, server_time |-> Null, version |-> Null] }

\* How a fetch settles: 2xx with a parsable body, a non-2xx status, a
\* rejected fetch, a 2xx whose body r.json() cannot parse.
Failures == {"http_error", "network_error", "bad_json"}

Outcomes == {"ok"} \cup Failures

NoBody == [tag |-> "none"]

\* the ways a fetch settles, with the parsed body of a success
Settlements(bodies) ==
    {[outcome |-> "ok", body |-> b] : b \in bodies}
        \cup {[outcome |-> o, body |-> NoBody] : o \in Failures}

\* String(e) of what each failure throws
RawError(outcome) ==
    CASE outcome = "http_error"    -> "Error: HTTP 500"
      [] outcome = "network_error" -> "TypeError: Failed to fetch"
      [] OTHER                     -> "SyntaxError: Unexpected token"

\* no relay route handler is running
NoRelay == [route |-> "none"]

\* no user fetch has settled yet
NoSettle == [outcome |-> "none", parsed |-> FALSE]

EmptyMeta == [server_time |-> Null, version |-> Null]

(***************************************************************************)
(* The state after construction: every useState slot at its initial value, *)
(* the health effect not yet run.                                          *)
(***************************************************************************)
Init ==
    /\ variant \in Variants
    /\ base \in (IF HandlersCheckBase(variant) \/ HealthChecksBase(variant)
                 THEN BOOLEAN ELSE {TRUE})
    /\ status = Null
    /\ error = Null
    /\ meta = EmptyMeta
    /\ typed = <<>>
    /\ q = <<>>
    /\ result = NullObj
    /\ signal = NullObj
    /\ lucky = NullObj
    /\ loading = FALSE
    /\ lastCall = "none"
    /\ inflight = {}
    /\ sent = 0
    /\ hpc = "init"
    /\ timer = "none"
    /\ reruns = 0
    /\ torn = 0
    /\ lastSettle = NoSettle
    /\ relay = NoRelay

(***************************************************************************)
(* Handlers.  Each action is a handler up to its first await.              *)
(***************************************************************************)
\* fetch(...): one more user request awaiting its response
Dispatch(kind, arg) ==
    /\ sent < MaxFetches
    /\ sent' = sent + 1
    /\ inflight' = inflight \cup {[id |-> sent + 1, kind |-> kind, arg |-> arg]}

NoDispatch == UNCHANGED <<inflight, sent>>

\* onChange of the search input
OnChange(value) ==
    /\ typed' = value
    /\ q' = IF UppercasesInput(variant) THEN ToUpperCase(value) ELSE value
    /\ UNCHANGED <<variant, base, status, error, meta, result, signal, lucky,
                   loading, lastCall, inflight, sent, hpc, timer, reruns,
                   torn, lastSettle, relay>>

\* the early return left out
OnSearchNeverReturnsEarly(ve) == FALSE

\* if (validationError) { setError(validationError); return; }
OnSearchReturnsEarly(ve) == ve # Null

\* performSearch without setSignal(null)
SearchClearsKeepsSignal ==
    /\ result' = NullObj
    /\ signal' = signal
    /\ lucky' = NullObj
    /\ error' = Null

\* performSearch without setResult(null)
SearchClearsKeepsResult ==
    /\ signal' = NullObj
    /\ lucky' = NullObj
    /\ error' = Null
    /\ UNCHANGED result

\* the four clearing calls that open performSearch
SearchClears ==
    /\ result' = NullObj
    /\ signal' = NullObj
    /\ lucky' = NullObj
    /\ error' = Null

\* the text onSearch hands to performSearch
SearchArgument == q

\* const validationError = validateQuery(q); the first draft validates nothing
ValidationError == IF ValidatesQuery(variant) THEN validateQuery(q) ELSE Null

\* onSearch, with performSearch up to its fetch
OnSearch ==
    /\ lastCall' = "onSearch"
    /\ IF OnSearchReturnsEarly(ValidationError)
       THEN /\ error' = ValidationError
            /\ UNCHANGED <<result, signal, lucky, loading>>
            /\ NoDispatch
       ELSE IF HandlersCheckBase(variant) /\ ~base
       THEN \* setLoading(true); performSearch returns at once; setLoading(false)
            /\ error' = "API base not configured."
            /\ loading' = FALSE
            /\ UNCHANGED <<result, signal, lucky>>
            /\ NoDispatch
       ELSE /\ SearchClears
            /\ loading' = IF SearchSetsLoading(variant) THEN TRUE ELSE loading
            /\ Dispatch("search", encodeURIComponent(SearchArgument))
    /\ UNCHANGED <<variant, base, status, meta, typed, q, hpc, timer, reruns,
                   torn, lastSettle, relay>>

\* ?? in place of ||: only an absent first suggestion falls back
selectSymbolNullish(r) ==
    IF r.type = "ticker" THEN r.normalized
    ELSE IF "suggestions" \notin r.missing /\ r.suggestions # <<>>
         THEN r.suggestions[1]
         ELSE r.normalized

\* result.type === "ticker" ? result.normalized
\*                          : result.suggestions?.[0] || result.normalized
selectSymbol(r) ==
    IF r.type = "ticker" THEN r.normalized
    ELSE IF /\ "suggestions" \notin r.missing
            /\ r.suggestions # <<>>
            /\ r.suggestions[1] # <<>>
         THEN r.suggestions[1]
         ELSE r.normalized

\* reading the symbol throws a TypeError: result is null, or the body has no
\* suggestions array and the draft indexes it without ?.
SymbolThrows(r, v) ==
    \/ r = NullObj
    \/ (r.type # "ticker" /\ "suggestions" \in r.missing /\ ~OptionalChaining(v))

\* the guard left out
GetSignalUnguarded == FALSE

\* if (!result) return;
GetSignalNoResult == result = NullObj

\* without setLucky(null)
FetchClearsKeepsLucky ==
    /\ loading' = TRUE
    /\ signal' = NullObj
    /\ error' = Null
    /\ UNCHANGED lucky

\* without setSignal(null)
FetchClearsKeepsSignal ==
    /\ loading' = TRUE
    /\ lucky' = NullObj
    /\ error' = Null
    /\ UNCHANGED signal

\* setLoading(true); setSignal(null); setLucky(null); setError(null);
FetchClears ==
    /\ loading' = TRUE
    /\ signal' = NullObj
    /\ lucky' = NullObj
    /\ error' = Null

\* getSignal up to its fetch
GetSignal ==
    /\ lastCall' = "getSignal"
    /\ IF GetSignalNoResult
       THEN /\ UNCHANGED <<error, signal, lucky, loading>>
            /\ NoDispatch
       ELSE IF HandlersCheckBase(variant) /\ ~base
       THEN /\ error' = "API base not configured."
            /\ UNCHANGED <<signal, lucky, loading>>
            /\ NoDispatch
       ELSE /\ FetchClears
            /\ IF SymbolThrows(result, variant)
               THEN NoDispatch   \* the handler's promise rejects, nothing catches it
               ELSE Dispatch("signal", encodeURIComponent(selectSymbol(result)))
    /\ UNCHANGED <<variant, base, status, meta, typed, q, result, hpc, timer,
                   reruns, torn, lastSettle, relay>>

\* feelingLucky up to its fetch
FeelingLucky ==
    /\ lastCall' = "feelingLucky"
    /\ IF HandlersCheckBase(variant) /\ ~base
       THEN /\ error' = "API base not configured."
            /\ UNCHANGED <<signal, lucky, loading>>
            /\ NoDispatch
       ELSE /\ FetchClears
            /\ Dispatch("lucky", <<>>)
    /\ UNCHANGED <<variant, base, status, meta, typed, q, result, hpc, timer,
                   reruns, torn, lastSettle, relay>>

(***************************************************************************)
(* Continuations: what runs when a fetch settles.  req names the fetch a   *)
(* stored value is the response of.                                        *)
(***************************************************************************)
ParsesBodyBeforeStatus(outcome) == outcome # "network_error"

\* if (!r.ok) throw ...; then await r.json(): the body of a response is read
\* only when its status is 2xx
ParsesBody(outcome) == outcome \in {"ok", "bad_json"}

FailureMessage(fixed, outcome) ==
    IF ShowsRawError(variant) THEN RawError(outcome) ELSE fixed

\* performSearch after its fetch, then the rest of onSearch
SearchResponse ==
    \E f \in inflight, s \in Settlements(SearchBodies) :
      LET outcome == s.outcome
          body == s.body
      IN
        /\ f.kind = "search"
        /\ inflight' = inflight \ {f}
        /\ IF outcome = "ok"
           THEN /\ result' = [tag |-> "result", type |-> body.type,
                              normalized |-> body.normalized,
                              suggestions |-> body.suggestions,
                              missing |-> body.missing, req |-> f.id]
                /\ UNCHANGED error
           ELSE /\ error' = FailureMessage("Search failed. Please try again.", outcome)
                /\ UNCHANGED result
        /\ loading' = IF SearchSetsLoading(variant) THEN FALSE ELSE loading
        /\ lastSettle' = [outcome |-> outcome, parsed |-> ParsesBody(outcome)]
        /\ UNCHANGED <<variant, base, status, meta, typed, q, signal, lucky,
                       lastCall, sent, hpc, timer, reruns, torn,
                       relay>>

\* getSignal after its fetch
SignalResponse ==
    \E f \in inflight, outcome \in Outcomes :
        /\ f.kind = "signal"
        /\ inflight' = inflight \ {f}
        /\ IF outcome = "ok"
           THEN /\ signal' = [tag |-> "signal", symbol |-> f.arg, req |-> f.id]
                /\ UNCHANGED error
           ELSE /\ error' = FailureMessage("Failed to fetch signal.", outcome)
                /\ UNCHANGED signal
        /\ loading' = FALSE
        /\ lastSettle' = [outcome |-> outcome, parsed |-> ParsesBody(outcome)]
        /\ UNCHANGED <<variant, base, status, meta, typed, q, result, lucky,
                       lastCall, sent, hpc, timer, reruns, torn,
                       relay>>

\* feelingLucky after its fetch
LuckyResponse ==
    \E f \in inflight, outcome \in Outcomes :
        /\ f.kind = "lucky"
        /\ inflight' = inflight \ {f}
        /\ IF outcome = "ok"
           THEN /\ lucky' = [tag |-> "lucky", req |-> f.id]
                /\ UNCHANGED error
           ELSE /\ error' = FailureMessage("Failed to fetch lucky picks.", outcome)
                /\ UNCHANGED lucky
        /\ loading' = FALSE
        /\ lastSettle' = [outcome |-> outcome, parsed |-> ParsesBody(outcome)]
        /\ UNCHANGED <<variant, base, status, meta, typed, q, result, signal,
                       lastCall, sent, hpc, timer, reruns, torn,
                       relay>>

(***************************************************************************)
(* The startup health check.                                               *)
(***************************************************************************)
HealthFrame ==
    UNCHANGED <<variant, base, typed, q, result, signal, lucky, loading,
                lastCall, inflight, sent, lastSettle, relay>>

\* the effect body: the base check, the timer, the fetch
RunHealthCheck ==
    IF HealthChecksBase(variant) /\ ~base
    THEN /\ error' = "Missing NEXT_PUBLIC_API_BASE."
         /\ hpc' = "done"
         /\ UNCHANGED timer
    ELSE /\ hpc' = "inflight"
         /\ timer' = IF HealthHasTimeout(variant) THEN "armed" ELSE "none"
         /\ UNCHANGED error

\* the effect runs after the first render
HealthEffect ==
    /\ hpc = "init"
    /\ RunHealthCheck
    /\ UNCHANGED <<status, meta, reruns, torn>>
    /\ HealthFrame

ClearTimeoutForgotten(t) == t

\* finally { clearTimeout(timeoutId); }
ClearTimeout(t) == IF t = "armed" THEN "cleared" ELSE t

\* the health fetch settles: try, catch and finally
HealthResponse ==
    \E s \in Settlements(HealthBodies) :
      LET outcome == s.outcome
          data == s.body
      IN
        /\ hpc = "inflight"
        /\ hpc' = "done"
        /\ IF outcome = "ok"
           THEN /\ status' = IF data.status = Null THEN "unknown" ELSE data.status
                /\ meta' = IF variant = "part_000" THEN meta
                           ELSE [server_time |-> data.server_time,
                                 version |-> data.version]
                /\ UNCHANGED error
           ELSE /\ error' = FailureMessage("Unable to reach API.", outcome)
                /\ UNCHANGED <<status, meta>>
        /\ timer' = ClearTimeout(timer)
        /\ UNCHANGED <<reruns, torn>>
        /\ HealthFrame

\* setTimeout(() => controller.abort(), 10000) fires
HealthTimeout ==
    /\ timer = "armed"
    /\ hpc = "inflight"
    /\ timer' = "fired"
    /\ hpc' = "aborted"
    /\ UNCHANGED <<status, error, meta, reruns, torn>>
    /\ HealthFrame

HealthAbortedRetries ==
    /\ hpc = "aborted"
    /\ hpc' = "inflight"
    /\ timer' = "armed"
    /\ UNCHANGED <<status, error, meta, reruns, torn>>
    /\ HealthFrame

\* the aborted fetch rejects: catch and finally
HealthAborted ==
    /\ hpc = "aborted"
    /\ hpc' = "done"
    /\ error' = "Unable to reach API."
    /\ UNCHANGED <<status, meta, timer, reruns, torn>>
    /\ HealthFrame

\* return () => { clearTimeout(timeoutId); controller.abort(); }
HealthHasCleanup(v) == v \in {"page", "route"}

\* The effect is torn down and run again while the page stays mounted (its
\* dependency changes, or the development runtime remounts it): the cleanup
\* of the run before, where that run returned one, then the effect body.  A
\* request the run before left unsettled is now one of a torn-down run.
HealthRerun ==
    /\ hpc # "init"
    /\ reruns < MaxReruns
    /\ reruns' = reruns + 1
    /\ torn' = IF hpc \in {"inflight", "aborted"} THEN torn + 1 ELSE torn
    /\ RunHealthCheck
    /\ UNCHANGED <<status, meta>>
    /\ HealthFrame

\* The request of a torn-down run settles.  Where the cleanup aborted it, it
\* rejects and the catch and finally of its run execute; where there is no
\* cleanup it is answered like any other health request.
TornHealthSettles ==
    \E s \in Settlements(HealthBodies) :
        /\ torn > 0
        /\ torn' = torn - 1
        /\ HealthHasCleanup(variant) => s.outcome = "network_error"
        /\ IF s.outcome = "ok"
           THEN /\ status' = IF s.body.status = Null THEN "unknown"
                             ELSE s.body.status
                /\ meta' = IF variant = "part_000" THEN meta
                           ELSE [server_time |-> s.body.server_time,
                                 version |-> s.body.version]
                /\ UNCHANGED error
           ELSE /\ error' = FailureMessage("Unable to reach API.", s.outcome)
                /\ UNCHANGED <<status, meta>>
        /\ UNCHANGED <<hpc, timer, reruns>>
        /\ HealthFrame

(***************************************************************************)
(* The user acts through what the page renders: the submit button is       *)
(* disabled while loading, the two buttons live in the result card.  React *)
(* runs the mount effect before it handles the first event.                *)
(***************************************************************************)
Mounted == hpc # "init"

SubmitAlwaysEnabled == TRUE

\* <button type="submit" disabled={loading}>
SubmitEnabled == ~(SubmitGated(variant) /\ loading)

ButtonsEnabled ==
    /\ RendersResultCard(variant)
    /\ result # NullObj
    /\ ~loading

Type == Mounted /\ \E value \in TypedInputs : OnChange(value)

SubmitSearch == Mounted /\ SubmitEnabled /\ OnSearch

ClickGetSignal == Mounted /\ ButtonsEnabled /\ GetSignal

ClickLucky == Mounted /\ ButtonsEnabled /\ FeelingLucky

Health == HealthEffect \/ HealthResponse \/ HealthTimeout \/ HealthAborted

Responses == SearchResponse \/ SignalResponse \/ LuckyResponse

Next ==
    \/ Type
    \/ SubmitSearch
    \/ ClickGetSignal
    \/ ClickLucky
    \/ Responses
    \/ Health

Spec == Init /\ [][Next]_vars

(***************************************************************************)
(* The same page with the two things the runtime guarantees: a timer that  *)
(* is armed fires, and a fetch that was aborted rejects.  Nothing makes    *)
(* the network answer, so the responses get no fairness.                   *)
(***************************************************************************)
SpecLive == Spec /\ WF_vars(HealthTimeout) /\ WF_vars(HealthAborted)

(***************************************************************************)
(* The page while its health effect is torn down and run again.            *)
(***************************************************************************)
UserActs == sent < MaxTeardownFetches

NextTeardown ==
    \/ Type
    \/ (UserActs /\ SubmitSearch)
    \/ (UserActs /\ ClickGetSignal)
    \/ (UserActs /\ ClickLucky)
    \/ Responses
    \/ Health
    \/ HealthRerun
    \/ TornHealthSettles

SpecTeardown == Init /\ [][NextTeardown]_vars

(***************************************************************************)
(* The handlers called directly, as the four operations the page's core    *)
(* exposes: nothing rendered stands between the caller and the handler.    *)
(***************************************************************************)
Callable == Mounted /\ sent < MaxApiFetches

CallOnSearch == Callable /\ OnSearch

CallGetSignal == Callable /\ GetSignal

CallFeelingLucky == Callable /\ FeelingLucky

NextApi ==
    \/ Type
    \/ CallOnSearch
    \/ CallGetSignal
    \/ CallFeelingLucky
    \/ Responses
    \/ Health

SpecApi == Init /\ [][NextApi]_vars

(***************************************************************************)
(* validateQuery on its own: the input is drawn at the start, one step     *)
(* applies the function and leaves what it returned in the error slot,     *)
(* where onSearch puts it.                                                 *)
(***************************************************************************)
StringsUpTo(n) == UNION {[1..k -> Alphabet] : k \in 0..n}

\* lengths of the repeated body: short ones, and the ones around the limit
BodyLengths == (0..MaxOver) \cup ((MaxQueryLen - 1)..(MaxQueryLen + MaxOver))

ValidateInputs ==
    {pre \o Rep(c, n) \o post :
        pre \in StringsUpTo(MaxAffix), post \in StringsUpTo(MaxAffix),
        c \in Alphabet, n \in BodyLengths}

InitValidate ==
    /\ variant = "page"
    /\ base = TRUE
    /\ status = Null
    /\ error = Null
    /\ meta = EmptyMeta
    /\ typed \in ValidateInputs
    /\ q = typed
    /\ result = NullObj
    /\ signal = NullObj
    /\ lucky = NullObj
    /\ loading = FALSE
    /\ lastCall = "none"
    /\ inflight = {}
    /\ sent = 0
    /\ hpc = "init"
    /\ timer = "none"
    /\ reruns = 0
    /\ torn = 0
    /\ lastSettle = NoSettle
    /\ relay = NoRelay

Validate ==
    /\ lastCall = "none"
    /\ lastCall' = "validateQuery"
    /\ error' = validateQuery(q)
    /\ UNCHANGED <<variant, base, status, meta, typed, q, result, signal, lucky,
                   loading, inflight, sent, hpc, timer, reruns, torn,
                   lastSettle, relay>>

NextValidate == Validate

SpecValidate == InitValidate /\ [][NextValidate]_vars

(***************************************************************************)
(* The input field alone: onChange with every short text, on the pages     *)
(* whose onChange upper-cases.                                             *)
(***************************************************************************)
InitNormalize ==
    /\ variant \in {v \in Variants : UppercasesInput(v)}
    /\ base = TRUE
    /\ status = Null
    /\ error = Null
    /\ meta = EmptyMeta
    /\ typed = <<>>
    /\ q = <<>>
    /\ result = NullObj
    /\ signal = NullObj
    /\ lucky = NullObj
    /\ loading = FALSE
    /\ lastCall = "none"
    /\ inflight = {}
    /\ sent = 0
    /\ hpc = "init"
    /\ timer = "none"
    /\ reruns = 0
    /\ torn = 0
    /\ lastSettle = NoSettle
    /\ relay = NoRelay

TypeText == \E value \in StringsUpTo(MaxTypedLen) : OnChange(value)

NextNormalize == TypeText

SpecNormalize == InitNormalize /\ [][NextNormalize]_vars

(***************************************************************************)
(* The server-side relays.  A body is a sequence of pieces of its bytes:   *)
(* "J" the text of a JSON value as JSON.stringify writes it, " " white     *)
(* space JSON ignores, "x" text that is no JSON, "BOM" a leading byte      *)
(* order mark, "BAD" bytes that are not UTF-8, "FFFD" the encoding of the  *)
(* replacement character.                                                  *)
(***************************************************************************)
\* the decoding done by r.text() and r.json(): a leading byte order mark is
\* dropped, bytes that are not UTF-8 become the replacement character
Utf8Decode(bytes) ==
    LET rest == IF bytes # <<>> /\ bytes[1] = "BOM" THEN Tail(bytes) ELSE bytes
    IN [i \in 1..Len(rest) |-> IF rest[i] = "BAD" THEN "FFFD" ELSE rest[i]]

\* new Response(text): the text encoded as UTF-8
Utf8Encode(text) == text

\* the characters of a text that JSON.parse does not skip
Significant(text) == SelectSeq(text, LAMBDA c : c # " ")

\* JSON.parse throws unless the text is one JSON value
JsonThrows(text) == Significant(text) # <<"J">>

JsonStringify(value) == <<value>>

JsonParse(text) == Significant(text)[1]

\* r.headers.get("Content-Type") ?? "application/json"
ContentTypeOrDefault(up) ==
    IF up.contentType = Null THEN "application/json" ELSE up.contentType

\* new Response(await r.text(), { status: r.status, headers: {...} })
PassThrough(up) ==
    [status |-> up.status,
     body |-> Utf8Encode(Utf8Decode(up.body)),
     contentType |-> ContentTypeOrDefault(up),
     cacheControl |-> Null]

\* what the framework answers when a route handler throws
HandlerThrew ==
    [status |-> 500, body |-> <<"x">>, contentType |-> Null,
     cacheControl |-> Null]

\* Response.json(await r.json(), { headers: { "Cache-Control": "no-store" } })
ReserialiseJson(up) ==
    IF JsonThrows(Utf8Decode(up.body))
    THEN HandlerThrew
    ELSE [status |-> 200,
          body |-> Utf8Encode(JsonStringify(JsonParse(Utf8Decode(up.body)))),
          contentType |-> "application/json",
          cacheControl |-> "no-store"]

\* the five route handlers: the health relay exists in two versions
RelayRoutes == {"health", "health_json", "search", "signal", "lucky"}

GET(route, up) ==
    IF route = "health_json" THEN ReserialiseJson(up) ELSE PassThrough(up)

UpstreamStatuses == {200, 404, 503}

UpstreamBodies ==
    { <<"J">>, <<" ", "J">>, <<"x">>, <<>>, <<"BOM", "J">>, <<"BAD">> }

UpstreamResponses ==
    [status : UpstreamStatuses, body : UpstreamBodies,
     contentType : {Null, "text/plain"}]

NoResponse == [status |-> 0]

InitRelay ==
    /\ variant = "page"
    /\ base = TRUE
    /\ status = Null
    /\ error = Null
    /\ meta = EmptyMeta
    /\ typed = <<>>
    /\ q = <<>>
    /\ result = NullObj
    /\ signal = NullObj
    /\ lucky = NullObj
    /\ loading = FALSE
    /\ lastCall = "none"
    /\ inflight = {}
    /\ sent = 0
    /\ hpc = "init"
    /\ timer = "none"
    /\ reruns = 0
    /\ torn = 0
    /\ lastSettle = NoSettle
    /\ relay \in [route : RelayRoutes, upstream : UpstreamResponses,
                  response : {NoResponse}]

\* the route handler, from the upstream response to its own
RelayGET ==
    /\ relay.route # "none"
    /\ relay.response = NoResponse
    /\ relay' = [relay EXCEPT !.response = GET(relay.route, relay.upstream)]
    /\ UNCHANGED <<variant, base, status, error, meta, typed, q, result, signal,
                   lucky, loading, lastCall, inflight, sent, hpc, timer,
                   reruns, torn, lastSettle>>

NextRelay == RelayGET

SpecRelay == InitRelay /\ [][NextRelay]_vars

(***************************************************************************)
(* Properties.                                                             *)
(***************************************************************************)
SetMin(S) == CHOOSE x \in S : \A y \in S : x <= y

SetMax(S) == CHOOSE x \in S : \A y \in S : y <= x

\* s without its leading and trailing white space, said without recursion:
\* what lies between the first and the last character that is not white space
TrimmedOf(s) ==
    LET solid == {i \in 1..Len(s) : ~IsWhiteSpace(s[i])} IN
    IF solid = {} THEN <<>> ELSE SubSeq(s, SetMin(solid), SetMax(solid))

HasOutsideChar(s) == \E i \in 1..Len(s) : ~AllowedChar(s[i])

Validated == lastCall = "validateQuery"

\* C1: validateQuery decides by the first failing rule, on the trimmed input:
\* empty gives the empty-query error; else longer than 50 gives the too-long
\* error whatever the characters; else a character outside [A-Za-z0-9 .-]
\* gives the invalid-characters error; else the input is accepted (null).
C1_FirstFailingRuleDecides ==
    Validated =>
        LET t == TrimmedOf(q) IN
        /\ (t = <<>>) => error = EmptyQuery
        /\ (t # <<>> /\ Len(t) > 50) => error = QueryTooLong
        /\ (t # <<>> /\ Len(t) <= 50 /\ HasOutsideChar(t)) => error = InvalidCharacters
        /\ (t # <<>> /\ Len(t) <= 50 /\ ~HasOutsideChar(t)) => error = Null

\* C1 witness: an input longer than 50 after trimming that also holds a
\* forbidden character was validated and got the too-long error.
C1_Witness ==
    /\ Validated
    /\ Len(TrimmedOf(q)) > 50
    /\ HasOutsideChar(TrimmedOf(q))
    /\ error = QueryTooLong

\* C2 as stated: every input that holds a character outside [A-Za-z0-9 .-]
\* fails with the invalid-characters error.
C2_AnyOutsideCharIsInvalid ==
    (Validated /\ HasOutsideChar(q)) => error = InvalidCharacters

\* C2 amended: validateQuery fails with the invalid-characters error exactly
\* when the trimmed input is at most 50 characters long and holds a character
\* outside [A-Za-z0-9 .-]; white space that trimming removes and inputs
\* longer than 50 do not give that error.
C2_OutsideCharInShortTrimmedIsInvalid ==
    Validated =>
        ((error = InvalidCharacters) <=>
            (Len(TrimmedOf(q)) <= 50 /\ HasOutsideChar(TrimmedOf(q))))

\* C2 witness: an input with white space to trim around a forbidden
\* character was validated and got the invalid-characters error.
C2_Witness ==
    /\ Validated
    /\ q # TrimmedOf(q)
    /\ HasOutsideChar(TrimmedOf(q))
    /\ error = InvalidCharacters

(***************************************************************************)
(* Properties of the handlers.                                             *)
(***************************************************************************)
\* the fetches a step dispatches
Dispatched == inflight' \ inflight

\* the fetches whose response a step handles
Settled == inflight \ inflight'

\* the validator's three rules, said on TrimmedOf
FailsValidation(s) ==
    LET t == TrimmedOf(s) IN t = <<>> \/ Len(t) > 50 \/ HasOutsideChar(t)

ValidationMessages == {EmptyQuery, QueryTooLong, InvalidCharacters}

\* C3: in the pages that validate, a submit whose query fails validation
\* dispatches no request, puts a validation message in the error slot, leaves
\* loading false and touches nothing else.
C3_InvalidQueryNeverDispatched ==
    [][(SubmitSearch /\ ValidatesQuery(variant) /\ FailsValidation(q)) =>
            /\ Dispatched = {}
            /\ sent' = sent
            /\ error' \in ValidationMessages
            /\ loading' = FALSE
            /\ UNCHANGED <<result, signal, lucky>>]_vars

\* C3 witness: onSearch ran on a query with a forbidden character, the
\* message is shown and no request was ever dispatched.
C3_Witness ==
    /\ lastCall = "onSearch"
    /\ HasOutsideChar(q)
    /\ error = InvalidCharacters
    /\ sent = 0
    /\ inflight = {}
    /\ ~loading

\* C4 as stated, for src/app/page.tsx: the query a valid submit dispatches is
\* the typed text trimmed and upper cased.
C4_DispatchedQueryIsTrimmedUppercase ==
    [][(SubmitSearch /\ variant = "page") =>
            \A f \in Dispatched :
                f.arg = encodeURIComponent(ToUpperCase(TrimmedOf(typed)))]_vars

\* what C5 says selectSymbol returns
FirstSuggestionWhatever(r) ==
    IF r.type = "ticker" THEN r.normalized
    ELSE IF r.suggestions # <<>> THEN r.suggestions[1]
    ELSE r.normalized

\* what the code's || makes of it: an empty first suggestion counts as none
FirstNonEmptySuggestion(r) ==
    IF r.type = "ticker" THEN r.normalized
    ELSE IF "suggestions" \in r.missing THEN r.normalized
    ELSE IF r.suggestions = <<>> THEN r.normalized
    ELSE IF r.suggestions[1] = <<>> THEN r.normalized
    ELSE r.suggestions[1]

\* C5 as stated, for src/app/page.tsx: the symbol of a signal request for a
\* well formed result is normalized for a ticker, else suggestions[0] whenever
\* suggestions is not empty, whatever its first element, else normalized.
C5_FirstSuggestionWhateverItIs ==
    [][(ClickGetSignal /\ variant = "page" /\ result.missing = {}) =>
            \A f \in Dispatched :
                f.arg = encodeURIComponent(FirstSuggestionWhatever(result))]_vars

\* C5 amended: the symbol of a signal request is normalized for a ticker;
\* else suggestions[0] when suggestions is not empty and its first element is
\* a non-empty string; else (suggestions empty, absent, or led by an empty
\* string) normalized.
C5_FirstNonEmptySuggestionElseNormalized ==
    [][ClickGetSignal =>
            \A f \in Dispatched :
                /\ f.kind = "signal"
                /\ f.arg = encodeURIComponent(FirstNonEmptySuggestion(result))]_vars

\* C5 witness: a signal request for the normalized name is in flight for a
\* company result whose first suggestion is the empty string.
C5_Witness ==
    /\ result # NullObj
    /\ result.type = "company"
    /\ result.suggestions # <<>>
    /\ result.suggestions[1] = <<>>
    /\ \E f \in inflight :
          f.kind = "signal" /\ f.arg = encodeURIComponent(result.normalized)

\* C6: getSignal called while no SearchResult is held changes nothing and
\* dispatches nothing.
C6_GetSignalWithoutResultIsNoOp ==
    [][(CallGetSignal /\ result = NullObj) =>
            /\ Dispatched = {}
            /\ UNCHANGED <<status, error, result, signal, lucky, loading,
                           inflight, sent>>]_vars

\* C6 witness: getSignal was the last call, before any request was ever
\* dispatched, so with no result held.
C6_Witness ==
    /\ lastCall = "getSignal"
    /\ result = NullObj
    /\ sent = 0
    /\ ~loading

\* C7: every step that dispatches a search, signal or lucky request leaves
\* signal, lucky and error null.
C7_DispatchClearsDisplay ==
    [][(Dispatched # {}) =>
            /\ signal' = NullObj
            /\ lucky' = NullObj
            /\ error' = Null]_vars

\* C7 witness: a request that is not the first is in flight with the three
\* slots clear.
C7_Witness ==
    /\ \E f \in inflight : f.id = sent /\ f.id >= 2
    /\ signal = NullObj
    /\ lucky = NullObj
    /\ error = Null

\* C8 as stated, for src/app/page.tsx: while a search, signal or lucky
\* request is in flight, result is null.
C8_ResultNullWhileAnyInFlight ==
    (variant = "page" /\ inflight # {}) => result = NullObj

\* C8 amended: the start of a search replaces result by null; the start of a
\* signal or lucky request leaves the held, non-null result as it is.
C8_OnlySearchDiscardsResult ==
    [][\A f \in Dispatched :
            IF f.kind = "search"
            THEN result' = NullObj
            ELSE result' = result /\ result # NullObj]_vars

\* C8 witness: a signal request is in flight and the result it was asked for
\* is still held.
C8_Witness ==
    /\ \E f \in inflight : f.kind = "signal"
    /\ result # NullObj

\* C9: signal and lucky are never both held.
C9_AtMostOneResultView == ~(signal # NullObj /\ lucky # NullObj)

\* C9 witness: a LuckyResponse is held that answers the third request, made
\* while the result of the first was held, and no Signal is held with it.
C9_Witness ==
    /\ lucky # NullObj
    /\ lucky.req = 3
    /\ result # NullObj
    /\ result.req = 1
    /\ signal = NullObj

\* C10 as stated: a response that writes result, signal or lucky belongs to
\* the operation started last.
C10_NoStaleResponseWrites ==
    [][\A f \in Settled :
            (result' # result \/ signal' # signal \/ lucky' # lucky)
                => f.id = sent]_vars

\* the pages whose three controls are disabled while loading and whose three
\* handlers all hold loading for the time of their request
ControlsGatedByLoading(v) ==
    SubmitGated(v) /\ SearchSetsLoading(v) /\ RendersResultCard(v)

\* C11: on a page whose Search, Get Signal and Lucky controls are disabled
\* while loading, at most one search, signal or lucky request is in flight at
\* any time, loading is true while it is, and a request is only ever started
\* when none is in flight.
C11_AtMostOneInFlight ==
    [][ControlsGatedByLoading(variant) =>
          /\ Cardinality(inflight') <= 1
          /\ (inflight' # {} => loading')
          /\ (Dispatched # {} => inflight = {})]_vars

\* C11 witness: on the canonical page the third request is in flight alone,
\* after the first two were answered, with the controls disabled.
C11_Witness ==
    /\ variant = "page"
    /\ \E f \in inflight : f.id = 3 /\ inflight = {f}
    /\ loading
    /\ ~SubmitEnabled
    /\ ~ButtonsEnabled

\* C12 as stated: loading is released on every exit path, so it is true only
\* while a search, signal or lucky request is in flight, and false in every
\* state in which none is.
C12_LoadingOnlyWhileInFlight == (inflight = {}) => ~loading

\* C13 as stated: under fairness of the timer every health check that was
\* started ends, with status or error written: one that is not answered is
\* aborted by the timer and ends with the unreachable-API error, so the
\* indicator does not stay at "Checking..." for ever.
C13_HealthCheckEnds ==
    (hpc = "inflight") ~> (hpc = "done" /\ (status # Null \/ error # Null))

\* C14 as stated, for the pages whose effect returns a cleanup: a health
\* request whose effect run was torn down while it was in flight is aborted
\* and writes nothing afterwards: when it settles, status, meta and error are
\* left as they were.
C14_TornDownRequestWritesNothing ==
    [][(torn' < torn /\ HealthHasCleanup(variant))
          => UNCHANGED <<status, meta, error>>]_vars

\* C15: on the pages the claim cites, every failure of a search, signal or
\* lucky request (non-2xx status, transport failure, unparsable body) is
\* caught in its handler: when the request settles that way the handler ends
\* with loading released, error is set, the data slot of the operation is
\* null, and the body of a non-2xx response has not been parsed.
C15_FailuresAreCaught ==
    [][ControlsGatedByLoading(variant) =>
          \A f \in Settled :
              lastSettle'.outcome \in Failures =>
                  /\ error' # Null
                  /\ ~loading'
                  /\ inflight' = {}
                  /\ f.kind = "search" => result' = NullObj
                  /\ f.kind = "signal" => signal' = NullObj
                  /\ f.kind = "lucky" => lucky' = NullObj
                  /\ lastSettle'.outcome = "http_error" => ~lastSettle'.parsed]_vars

\* C15 witness: on the canonical page a signal request was answered with a
\* non-2xx status: the error is shown, no Signal is held, the result it was
\* asked for is still there, and the body was not parsed.
C15_Witness ==
    /\ variant = "page"
    /\ lastCall = "getSignal"
    /\ lastSettle = [outcome |-> "http_error", parsed |-> FALSE]
    /\ error = "Failed to fetch signal."
    /\ signal = NullObj
    /\ result # NullObj
    /\ ~loading
    /\ inflight = {}

\* a body that has every field of a SearchResult
WellFormed(r) == r.missing = {}

\* C16 as stated, for the canonical page: a 2xx search body that is parsable
\* but lacks a field of SearchResult is never stored as the result.
C16_MalformedBodyNeverStored ==
    (variant = "page" /\ result # NullObj) => WellFormed(result)

\* C17 as stated, for the canonical page: every signal request that is
\* dispatched carries a non-empty symbol in its path.
C17_SignalSymbolNonEmpty ==
    variant = "page" => \A f \in inflight : f.kind = "signal" => f.arg # <<>>

\* C18: nothing is retried.  A step dispatches at most one request; a request
\* is dispatched only by a step in which the user acts, never by the step
\* that handles a response or a failure; the health request is sent once, by
\* the effect at startup, and never again after it ended or was aborted.
C18_NoAutomaticRetry ==
    [][/\ Cardinality(Dispatched) <= 1
       /\ sent' <= sent + 1
       /\ Dispatched # {} => (SubmitSearch \/ ClickGetSignal \/ ClickLucky)
       /\ Settled # {} => Dispatched = {}
       /\ hpc' = "inflight" => hpc \in {"init", "inflight"}]_vars

\* C18 witness: on the canonical page the health check timed out and the one
\* search the user made failed; nothing is in flight and nothing was sent
\* besides.
C18_Witness ==
    /\ variant = "page"
    /\ hpc = "done"
    /\ timer = "fired"
    /\ status = Null
    /\ lastSettle.outcome = "network_error"
    /\ error = "Search failed. Please try again."
    /\ inflight = {}
    /\ sent = 1

\* C19 as stated, for the canonical page: the lucky pick does not depend on a
\* SearchResult, so wherever the page is idle with no result held the user
\* can start it.
C19_LuckyStartsWithoutResult ==
    (variant = "page" /\ Mounted /\ result = NullObj /\ ~loading
        /\ sent < MaxFetches)
    => ENABLED ClickLucky

Relayed == relay.route # "none" /\ relay.response # NoResponse

\* a body that is UTF-8 text with no byte order mark
PlainText(bytes) == Utf8Decode(bytes) = bytes

\* C20 as stated, for upstream bodies that are plain UTF-8 text: every relay
\* returns exactly the status code and the body of the upstream response.
C20_RelayReturnsUpstreamStatusAndBody ==
    (Relayed /\ PlainText(relay.upstream.body)) =>
        /\ relay.response.status = relay.upstream.status
        /\ relay.response.body = relay.upstream.body

IsLowerCase(c) == c = "a"

\* two texts that differ at most in the case of their letters
SameUpToCase(x, y) ==
    /\ Len(x) = Len(y)
    /\ \A i \in 1..Len(x) : x[i] = y[i] \/ {x[i], y[i]} = {"a", "A"}

\* C21: the text the input field holds is the upper-cased text of the last
\* onChange event.  Normalizing is idempotent: an event that carries the text
\* the field already holds leaves it as it is.  It is stable under letter
\* case: an event whose text differs from the text of the event before only
\* in letter case gives the same field text, and that text holds no
\* lower-case letter.
C21_NormalizeIdempotentCaseStable ==
    [][/\ typed' = q => q' = q
       /\ SameUpToCase(typed', typed) => q' = q
       /\ SameUpToCase(q', typed')
       /\ \A i \in 1..Len(q') : ~IsLowerCase(q'[i])]_vars

\* C21 witness: a mixed-case text was typed and the field holds it in upper
\* case.
C21_Witness ==
    /\ typed = <<"a", "A">>
    /\ q = <<"A", "A">>

\* the messages the three request handlers show when their request fails
RequestFailureMessages ==
    {"Search failed. Please try again.", "Failed to fetch signal.",
     "Failed to fetch lucky picks."}

\* C22 as stated, for the canonical page: while an error message is shown
\* neither a Signal nor a LuckyResponse is held.
C22_ErrorExcludesSignalAndLucky ==
    (variant = "page" /\ error # Null) => (signal = NullObj /\ lucky = NullObj)

\* C22 amended: on the pages whose controls are disabled while loading, the
\* message of a failed search, signal or lucky request is never shown
\* together with a Signal or a LuckyResponse.  A validation message and the
\* message of a failed health check can be: neither path clears the display.
C22_RequestFailureExcludesSignalAndLucky ==
    (ControlsGatedByLoading(variant) /\ error \in RequestFailureMessages)
        => (signal = NullObj /\ lucky = NullObj)

\* C22 witness: on the canonical page a lucky request made while a result was
\* held has failed: its message is shown, nothing else but the result is.
C22_Witness ==
    /\ variant = "page"
    /\ error = "Failed to fetch lucky picks."
    /\ lastCall = "feelingLucky"
    /\ result # NullObj
    /\ signal = NullObj
    /\ lucky = NullObj

\* what the page shows when neither status nor error is set
ShowsChecking == status = Null /\ error = Null

\* C23 as stated, for the canonical page: once the startup health check has
\* ended, with success or with failure, the indicator never shows
\* "Checking..." again.
C23_NeverBackToChecking == (variant = "page" /\ hpc = "done") => ~ShowsChecking

\* C24: on the pages whose controls are disabled while loading, whenever a
\* Signal is held a SearchResult is held too, and the Signal answers a request
\* that was made after that result arrived, for the symbol getSignal selects
\* from it: a Signal is never shown with no result or with the result of
\* another search.
C24_SignalBelongsToHeldResult ==
    (ControlsGatedByLoading(variant) /\ signal # NullObj) =>
        /\ result # NullObj
        /\ signal.req > result.req
        /\ signal.symbol = encodeURIComponent(FirstNonEmptySuggestion(result))

\* C24 witness: on the canonical page a company result arrived first, a lucky
\* pick was fetched next, and the Signal held answers the third request, made
\* for the first suggestion of that result.
C24_Witness ==
    /\ variant = "page"
    /\ result # NullObj
    /\ result.req = 1
    /\ result.type = "company"
    /\ signal # NullObj
    /\ signal.req = 3
    /\ signal.symbol = TSLA

\* C25: a health check that has set status has ended with its timer
\* cancelled, and nothing of it happens afterwards: the timer does not fire,
\* the request is not aborted, and status and meta stay as the check wrote
\* them, so an error set later is set by the user's operations, never by the
\* check.
C25_CompletedCheckStaysCompleted ==
    [][/\ status' # Null => (hpc' = "done" /\ timer' \in {"cleared", "none"})
       /\ status # Null => UNCHANGED <<hpc, timer, status, meta>>]_vars

\* C25 witness: on the canonical page the check succeeded and its timer was
\* cleared; a search made afterwards failed, and its message is the error
\* shown next to the status.
C25_Witness ==
    /\ variant = "page"
    /\ status = "ok"
    /\ hpc = "done"
    /\ timer = "cleared"
    /\ lastSettle.outcome \in Failures
    /\ error = "Search failed. Please try again."

====
